---- MODULE Spec2Model ----
(***************************************************************************)
(* Model of the user-story analyzer (analisar_historias.py) and of the     *)
(* automated-vs-human comparison (comparar_IA_analistas.py).               *)
(*                                                                         *)
(* Strings the code parses (file names, analyst ids, story numbers) are    *)
(* sequences of one-character strings.  A key a Python dict does not hold  *)
(* is the value NoKey.  The analyst_dir argument is tested for truth only  *)
(* ("if analyst_dir:"), so None and the empty string are one value, None.  *)
(***************************************************************************)
EXTENDS Integers, Sequences, FiniteSets, TLC

VARIABLES analysts_dirs, stories, user_analysis, requirements_by_id, errors, messages,
          pc, result, ia, analistas, resultados, cpc, df, df_resultado, rpc

vars == <<analysts_dirs, stories, user_analysis, requirements_by_id, errors, messages,
          pc, result, ia, analistas, resultados, cpc, df, df_resultado, rpc>>

analyzerVars == <<analysts_dirs, stories, user_analysis, requirements_by_id, errors,
                  messages, pc, result>>
compararVars == <<ia, analistas, resultados, cpc>>

rollupVars == <<df, df_resultado, rpc>>

NoKey == "<absent>"
None == <<>>
unknown == <<"u", "n", "k", "n", "o", "w", "n">>
NaoEncontrado == "Requisito nao encontrado"
NA == "N/A"

(***************************************************************************)
(* Bounds.                                                                 *)
(***************************************************************************)
MaxFiles == 3
MaxStem == 5

(***************************************************************************)
(* Characters and the strings built from them.                             *)
(***************************************************************************)
DigitChars == {"0", "1", "2", "3", "4", "5", "6", "7", "8", "9"}
LetterChars == {"a", "b", "c", "g", "j", "s", "o", "n", "x"}
WordChars == DigitChars \cup LetterChars \cup {"_"}
DotJson == <<".", "j", "s", "o", "n">>

AllIn(s, lo, hi, chars) == \A x \in lo..hi : s[x] \in chars

\* str.split(sep): the pieces between the occurrences of sep, empty ones kept.
RECURSIVE Split(_, _)
Split(s, sep) ==
    IF \E x \in 1..Len(s) : s[x] = sep
    THEN LET i == CHOOSE x \in 1..Len(s) :
                      s[x] = sep /\ \A y \in 1..(x - 1) : s[y] # sep
         IN <<SubSeq(s, 1, i - 1)>> \o Split(SubSeq(s, i + 1, Len(s)), sep)
    ELSE <<s>>

(***************************************************************************)
(* story_pattern = g\d+(\w+)_(\d+)\.json, applied with re.match: anchored  *)
(* at the start of the name only.  A match is the triple of the last       *)
(* positions of \d+, (\w+) and (\d+).                                      *)
(***************************************************************************)
PatternMatches(f) ==
    { t \in UNION { UNION { { <<i, j, k>> : k \in (j + 2)..(Len(f) - 5) }
                            : j \in (i + 1)..(Len(f) - 7) }
                    : i \in 2..(Len(f) - 8) } :
        /\ f[1] = "g"
        /\ AllIn(f, 2, t[1], DigitChars)
        /\ AllIn(f, t[1] + 1, t[2], WordChars)
        /\ f[t[2] + 1] = "_"
        /\ AllIn(f, t[2] + 2, t[3], DigitChars)
        /\ SubSeq(f, t[3] + 1, t[3] + 5) = DotJson }

\* Both quantifiers are greedy: the engine returns the match with the longest
\* \d+, and among those the longest (\w+).
GreedyGE(t, u) ==
    \/ t[1] > u[1]
    \/ t[1] = u[1] /\ t[2] > u[2]
    \/ t[1] = u[1] /\ t[2] = u[2] /\ t[3] >= u[3]

\* The groups of the match; used only where PatternMatches(f) # {}.
story_pattern_match(f) ==
    LET M == PatternMatches(f)
        t == CHOOSE t \in M : \A u \in M : GreedyGE(t, u)
    IN [group1 |-> SubSeq(f, t[1] + 1, t[2]),
        group2 |-> SubSeq(f, t[2] + 2, t[3])]

\* Lines 73-85: analyst id and story number of a file.
FilenameAnalystId(filename) ==
    LET parts == Split(filename, "_")
    IN IF PatternMatches(filename) # {} THEN story_pattern_match(filename).group1
       ELSE IF Len(parts) > 0 THEN parts[1] ELSE unknown

FilenameStoryNumber(filename) ==
    LET parts == Split(filename, "_")
    IN IF PatternMatches(filename) # {} THEN story_pattern_match(filename).group2
       ELSE IF Len(parts) > 1 THEN Split(parts[2], ".")[1] ELSE unknown

\* Variant of lines 73-90 in which the folder is used only when the file
\* name does not match the pattern.
ResolveAnalystIdFilenameFirst(filename, analyst_dir) ==
    IF PatternMatches(filename) # {} \/ analyst_dir = None
    THEN FilenameAnalystId(filename)
    ELSE analyst_dir

ResolveAnalystId(filename, analyst_dir) ==
    IF analyst_dir # None THEN analyst_dir ELSE FilenameAnalystId(filename)

Metadata(filename, analyst_dir) ==
    [filename |-> filename,
     analyst_id |-> ResolveAnalystId(filename, analyst_dir),
     story_number |-> FilenameStoryNumber(filename)]

(***************************************************************************)
(* The documents.  A requirement is a dict with the keys id, id_externo,   *)
(* descricao, nivel, fk_Secao_id, marked; a submission holds userStory and *)
(* questions -> questoesEspecificas -> requirements.  The what/who/why     *)
(* texts are copied to the output rows unread and are left out.  A missing *)
(* 'marked' reads as False (line 142), so marked is a boolean.             *)
(***************************************************************************)
Req(id, id_externo, descricao, nivel, secao, marked) ==
    [id |-> id, id_externo |-> id_externo, descricao |-> descricao,
     nivel |-> nivel, fk_Secao_id |-> secao, marked |-> marked]

rA == Req("1", "R1", "d1", "L1", "S1", TRUE)
\* the requirement of rA seen again with other metadata, not marked
rAalt == Req("1", "R1", "d2", NoKey, NoKey, FALSE)
rB == Req("2", "R2", "d2", "L1", "S1", TRUE)
\* external id R1 under another internal id
rC == Req("3", "R1", "d3", "L2", "S2", FALSE)
\* no external id
rNoExt == Req("5", NoKey, "d5", "L1", "S1", FALSE)
\* no description: line 122 raises KeyError
rBad == Req("4", "R2", NoKey, "L1", "S1", FALSE)

Doc(hasUserStory, story_id, questions) ==
    [kind |-> "object", hasUserStory |-> hasUserStory,
     userStory |-> [id |-> story_id], questions |-> questions]

\* questions: a sequence of questions, each a sequence of specific questions,
\* each a sequence of requirements.
Questions ==
    { <<>>,
      << << <<rA>> >> >>,
      << << <<rA>>, <<rB>> >> >>,
      << << <<rA>> >>, << <<rA>> >> >>,
      << << <<rAalt, rNoExt>>, <<rC>> >> >>,
      << << <<rB, rBad, rA>> >> >> }

Documents ==
    { Doc(TRUE, "10", q) : q \in Questions }
      \cup { Doc(FALSE, NoKey, << << <<rA>> >> >>), Doc(TRUE, NoKey, <<>>) }

\* What json.load can find in a file: no JSON at all, JSON that is no object
\* (an array), or a submission.
InvalidJson == [kind |-> "invalid"]
JsonArray == [kind |-> "array"]
FileContents == {InvalidJson, JsonArray} \cup Documents

RECURSIVE Concat(_)
Concat(ss) == IF ss = <<>> THEN <<>> ELSE Head(ss) \o Concat(Tail(ss))

\* The requirements of a submission in the order of the three nested loops.
AllRequirements(data) == Concat(Concat(data.questions))

(***************************************************************************)
(* requirements_by_id is a dict keyed by the internal id: a sequence of    *)
(* entries in the order the keys were first inserted.                      *)
(***************************************************************************)
DictKeys(d) == { d[i].id : i \in 1..Len(d) }

DictSet(d, entry) ==
    IF entry.id \in DictKeys(d)
    THEN [i \in 1..Len(d) |-> IF d[i].id = entry.id THEN entry ELSE d[i]]
    ELSE Append(d, entry)

CatalogEntry(requirement) ==
    [id |-> requirement.id,
     id_externo |-> requirement.id_externo,
     descricao |-> requirement.descricao,
     nivel |-> IF requirement.nivel = NoKey THEN NA ELSE requirement.nivel,
     secao_id |-> IF requirement.fk_Secao_id = NoKey THEN "None"
                  ELSE requirement.fk_Secao_id]

\* Lines 117-125 for one requirement: a KeyError when id or descricao is missing.
RegisterRaises(requirement) ==
    /\ requirement.id_externo # NoKey
    /\ requirement.id = NoKey \/ requirement.descricao = NoKey

Register(catalog, requirement) ==
    IF requirement.id_externo # NoKey
    THEN DictSet(catalog, CatalogEntry(requirement))
    ELSE catalog

\* _extract_requirements_info over the requirements reqs: the catalog when the
\* loop ends or raises, and whether it raised.
RECURSIVE ExtractRequirementsInfo(_, _)
ExtractRequirementsInfo(catalog, reqs) ==
    IF reqs = <<>> THEN [catalog |-> catalog, raised |-> FALSE]
    ELSE IF RegisterRaises(Head(reqs)) THEN [catalog |-> catalog, raised |-> TRUE]
    ELSE ExtractRequirementsInfo(Register(catalog, Head(reqs)), Tail(reqs))

\* user_analysis[(analyst_id, story_number)].append(data): the entries are the
\* objects held in self.stories, named here by their index in it.
IndexAppend(index, key, n) ==
    [k \in DOMAIN index \cup {key} |->
        IF k = key
        THEN (IF key \in DOMAIN index THEN Append(index[key], n) ELSE <<n>>)
        ELSE index[k]]

(***************************************************************************)
(* _process_file(filename, filepath, analyst_dir); contents is what the    *)
(* file holds.  Every exception is caught and reported (lines 102-105).    *)
(***************************************************************************)
\* What the call leaves in the three collections, and the message it prints:
\* "JSON invalido" (line 103), the text of another exception (line 105), or
\* none.  The file path that starts each message is left out.
NoMessage == "none"
JsonInvalido == "JSON invalido"

\* The three collections of the analyzer, as one value.
Loaded ==
    [stories |-> stories, user_analysis |-> user_analysis,
     requirements_by_id |-> requirements_by_id]

\* Lines 68-105 run on the collections `loaded`.
IngestFrom(loaded, filename, analyst_dir, contents) ==
    LET meta == Metadata(filename, analyst_dir)
        data == [kind |-> "object", hasUserStory |-> contents.hasUserStory,
                 userStory |-> contents.userStory,
                 questions |-> contents.questions, _metadata |-> meta]
        extracted == ExtractRequirementsInfo(loaded.requirements_by_id,
                                             AllRequirements(contents))
    IN IF contents.kind = "invalid"
       THEN \* json.load raises JSONDecodeError
            [stories |-> loaded.stories, user_analysis |-> loaded.user_analysis,
             requirements_by_id |-> loaded.requirements_by_id,
             message |-> JsonInvalido]
       ELSE IF contents.kind # "object"
       THEN \* TypeError at line 88 for a JSON array
            [stories |-> loaded.stories, user_analysis |-> loaded.user_analysis,
             requirements_by_id |-> loaded.requirements_by_id,
             message |-> "TypeError"]
       ELSE [stories |-> Append(loaded.stories, data),
             user_analysis |->
                 IndexAppend(loaded.user_analysis,
                             <<meta.analyst_id, meta.story_number>>,
                             Len(loaded.stories) + 1),
             requirements_by_id |-> extracted.catalog,
             message |-> IF extracted.raised THEN "KeyError" ELSE NoMessage]

\* Variant of Ingested in which a file that fails to parse is still recorded,
\* as an empty document.
IngestedKeepsInvalid(filename, analyst_dir, contents) ==
    IF contents.kind = "invalid"
    THEN [IngestFrom(Loaded, filename, analyst_dir, Doc(FALSE, NoKey, <<>>))
            EXCEPT !.message = JsonInvalido]
    ELSE IngestFrom(Loaded, filename, analyst_dir, contents)

Ingested(filename, analyst_dir, contents) ==
    IngestFrom(Loaded, filename, analyst_dir, contents)

ProcessFile(filename, analyst_dir, contents) ==
    LET after == Ingested(filename, analyst_dir, contents)
    IN /\ stories' = after.stories
       /\ user_analysis' = after.user_analysis
       /\ requirements_by_id' = after.requirements_by_id
       /\ errors' = IF after.message # NoMessage THEN errors + 1 ELSE errors
       /\ messages' = IF after.message # NoMessage
                      THEN Append(messages, after.message) ELSE messages

(***************************************************************************)
(* Order of strings (sorted() on str): the ids and codes the model uses,   *)
(* in lexicographic order.                                                 *)
(***************************************************************************)
StrOrder == <<"Q1", "Q10", "Q19", "Q2", "Q3", "Q5", "R1", "R2">>

StrRank(x) == CHOOSE i \in 1..Len(StrOrder) : StrOrder[i] = x

RECURSIVE Sorted(_)
Sorted(S) ==
    IF S = {} THEN <<>>
    ELSE LET m == CHOOSE x \in S : \A y \in S : StrRank(x) <= StrRank(y)
         IN <<m>> \o Sorted(S \ {m})

Range(seq) == { seq[i] : i \in 1..Len(seq) }

RECURSIVE SumSeq(_)
SumSeq(seq) == IF seq = <<>> THEN 0 ELSE Head(seq) + SumSeq(Tail(seq))

(***************************************************************************)
(* get_marked_requirements                                                 *)
(***************************************************************************)
IsMarked(requirement) == requirement.marked

get_marked_requirements(story_data) ==
    SelectSeq(AllRequirements(story_data), IsMarked)

\* set(req.get('id_externo') for req in get_marked_requirements(story))
MarkedIdSet(story) ==
    { r.id_externo : r \in Range(get_marked_requirements(story)) }

(***************************************************************************)
(* get_requirement_frequency: a Counter, one increment for each element of *)
(* the marked list of each story.                                          *)
(***************************************************************************)
Increments(story, req_id) ==
    LET Hit(r) == r.id_externo = req_id
    IN Len(SelectSeq(get_marked_requirements(story), Hit))

RequirementFrequency ==
    LET keys == UNION { MarkedIdSet(stories[i]) : i \in 1..Len(stories) }
    IN [r \in keys |->
          SumSeq([i \in 1..Len(stories) |-> Increments(stories[i], r)])]

(***************************************************************************)
(* get_story_requirement_matrix                                            *)
(***************************************************************************)
\* story['userStory']['id'] raises KeyError
StoryIdRaises(story) == ~story.hasUserStory \/ story.userStory.id = NoKey

AllReqIds ==
    Sorted({ requirements_by_id[i].id_externo : i \in 1..Len(requirements_by_id) })

MatrixRow(story) ==
    [story_id |-> story.userStory.id,
     analyst_id |-> story._metadata.analyst_id,
     story_number |-> story._metadata.story_number,
     req |-> [r \in Range(AllReqIds) |->
                IF r \in Range([i \in 1..Len(get_marked_requirements(story)) |->
                                  get_marked_requirements(story)[i].id_externo])
                THEN 1 ELSE 0]]

StoryRequirementMatrix ==
    IF \E i \in 1..Len(stories) : StoryIdRaises(stories[i])
    THEN [raised |-> TRUE, columns |-> <<>>, rows |-> <<>>]
    ELSE [raised |-> FALSE, columns |-> AllReqIds,
          rows |-> [i \in 1..Len(stories) |-> MatrixRow(stories[i])]]

(***************************************************************************)
(* _get_requirement_description: the first entry, in dict order, that has  *)
(* the external id.  Every entry holds 'descricao' (line 122), so the      *)
(* default of line 330 is never read.                                      *)
(***************************************************************************)
RequirementDescription(req_id_externo) ==
    LET hits == { i \in 1..Len(requirements_by_id) :
                    requirements_by_id[i].id_externo = req_id_externo }
    IN IF hits = {} THEN NaoEncontrado
       ELSE requirements_by_id[CHOOSE i \in hits : \A j \in hits : i <= j].descricao

(***************************************************************************)
(* get_analyst_agreement                                                   *)
(***************************************************************************)
\* stories_by_number: the story numbers in the order of their first story,
\* and the stories (by index) grouped under a number, in list order.
RECURSIVE StoryNumbersOf(_)
StoryNumbersOf(n) ==
    IF n = 0 THEN <<>>
    ELSE LET before == StoryNumbersOf(n - 1)
             number == stories[n]._metadata.story_number
         IN IF number \in Range(before) THEN before ELSE Append(before, number)

StoryNumbers == StoryNumbersOf(Len(stories))

HasNumber(number, i) == stories[i]._metadata.story_number = number

RECURSIVE VariantsUpTo(_, _)
VariantsUpTo(number, n) ==
    IF n = 0 THEN <<>>
    ELSE IF HasNumber(number, n) THEN Append(VariantsUpTo(number, n - 1), n)
    ELSE VariantsUpTo(number, n - 1)

StoryVariants(number) == VariantsUpTo(number, Len(stories))

\* analyst_requirements[analyst_id] = marked_reqs (line 227): a later story of
\* the same analyst replaces the set stored for an earlier one.
AnalystRequirements(number) ==
    LET variants == StoryVariants(number)
        analysts == { stories[variants[k]]._metadata.analyst_id :
                        k \in 1..Len(variants) }
        Last(a) == CHOOSE k \in 1..Len(variants) :
                      /\ stories[variants[k]]._metadata.analyst_id = a
                      /\ \A m \in (k + 1)..Len(variants) :
                            stories[variants[m]]._metadata.analyst_id # a
    IN [a \in analysts |-> MarkedIdSet(stories[variants[Last(a)]])]

\* The check of line 230 weakened to one analyst.
EnoughAnalystsOne(analyst_requirements) ==
    Cardinality(DOMAIN analyst_requirements) >= 1

\* Line 230.
EnoughAnalysts(analyst_requirements) ==
    Cardinality(DOMAIN analyst_requirements) >= 2

EmitsRecord(number) ==
    /\ Len(StoryVariants(number)) > 1
    /\ EnoughAnalysts(AnalystRequirements(number))

\* Lines 232-243.  common_marked starts as the first analyst's set object and
\* is intersected in place; that set has already been added to all_marked
\* and is not read again, so the aliasing changes no result.
AllMarked(analyst_requirements) ==
    UNION { analyst_requirements[a] : a \in DOMAIN analyst_requirements }

CommonMarked(analyst_requirements) ==
    { r \in AllMarked(analyst_requirements) :
        \A a \in DOMAIN analyst_requirements : r \in analyst_requirements[a] }

RECURSIVE GCD(_, _)
GCD(a, b) == IF b = 0 THEN a ELSE GCD(b, a % b)

\* The float common / total is determined by the fraction in lowest terms;
\* 1.0 is 1/1.
AgreementRatio(common_requirements, total_requirements) ==
    IF total_requirements > 0
    THEN LET g == GCD(common_requirements, total_requirements)
         IN [num |-> common_requirements \div g, den |-> total_requirements \div g]
    ELSE [num |-> 1, den |-> 1]

AgreementRecord(number) ==
    LET analyst_requirements == AnalystRequirements(number)
        total_requirements == Cardinality(AllMarked(analyst_requirements))
        common_requirements == Cardinality(CommonMarked(analyst_requirements))
    IN [story_number |-> number,
        story_id |-> stories[StoryVariants(number)[1]].userStory.id,
        analysts_count |-> Cardinality(DOMAIN analyst_requirements),
        total_unique_requirements |-> total_requirements,
        common_requirements |-> common_requirements,
        agreement_ratio |-> AgreementRatio(common_requirements, total_requirements)]

\* Line 257: story_variants[0]['userStory']['id'] raises KeyError.
RecordRaises(number) ==
    EmitsRecord(number) /\ StoryIdRaises(stories[StoryVariants(number)[1]])

RECURSIVE AgreementData(_)
AgreementData(numbers) ==
    IF numbers = <<>> THEN <<>>
    ELSE IF EmitsRecord(Head(numbers))
         THEN <<AgreementRecord(Head(numbers))>> \o AgreementData(Tail(numbers))
         ELSE AgreementData(Tail(numbers))

AnalystAgreement ==
    IF \E k \in 1..Len(StoryNumbers) : RecordRaises(StoryNumbers[k])
    THEN [raised |-> TRUE, rows |-> <<>>]
    ELSE [raised |-> FALSE, rows |-> AgreementData(StoryNumbers)]

(***************************************************************************)
(* The analyzer: load_stories hands the files of the data directory to     *)
(* _process_file in listing order, with the folder name when the directory *)
(* has analyst folders and with None when it has none.                     *)
(* The three analyses are then called on the loaded state.                 *)
(***************************************************************************)
Name(stem) == stem \o DotJson

FileNames ==
    { Name(<<"g", "5", "a", "_", "5">>), Name(<<"g", "7", "a", "_", "5">>),
      Name(<<"g", "5", "b", "_", "5">>), Name(<<"g", "5", "b", "_", "7">>) }

AnalystDirs == { <<"c">> }

\* Lines 39-55: the analyst_dir argument of each call.
DirChoices == IF analysts_dirs = {} THEN {None} ELSE analysts_dirs

\* A path is listed once.
PathLoaded(filename, analyst_dir) ==
    \E i \in 1..Len(stories) :
        /\ stories[i]._metadata.filename = filename
        /\ stories[i]._metadata.analyst_id = ResolveAnalystId(filename, analyst_dir)

NoResult == [op |-> "none"]

InitAnalyzer ==
    /\ analysts_dirs \in SUBSET AnalystDirs
    /\ stories = <<>>
    /\ user_analysis = <<>>
    /\ requirements_by_id = <<>>
    /\ errors = 0
    /\ messages = <<>>
    /\ pc = "load"
    /\ result = NoResult

InitComparar ==
    /\ ia = <<>>
    /\ analistas = <<>>
    /\ resultados = <<>>
    /\ cpc = "start"

InitRollup ==
    /\ df = <<>>
    /\ df_resultado = <<>>
    /\ rpc = "start"

LoadFile(filename, analyst_dir, contents) ==
    /\ pc = "load"
    /\ Len(stories) + errors < MaxFiles
    /\ ~PathLoaded(filename, analyst_dir)
    /\ ProcessFile(filename, analyst_dir, contents)
    /\ UNCHANGED <<analysts_dirs, pc, result>>
    /\ UNCHANGED <<compararVars, rollupVars>>

LoadStories ==
    \E filename \in FileNames, analyst_dir \in DirChoices, contents \in FileContents :
        LoadFile(filename, analyst_dir, contents)

GetRequirementFrequency ==
    /\ pc = "load"
    /\ pc' = "done"
    /\ result' = [op |-> "frequency", value |-> RequirementFrequency]
    /\ UNCHANGED <<analysts_dirs, stories, user_analysis, requirements_by_id, errors,
                     messages>>
    /\ UNCHANGED <<compararVars, rollupVars>>

GetStoryRequirementMatrix ==
    /\ pc = "load"
    /\ pc' = "done"
    /\ result' = [op |-> "matrix", value |-> StoryRequirementMatrix]
    /\ UNCHANGED <<analysts_dirs, stories, user_analysis, requirements_by_id, errors,
                     messages>>
    /\ UNCHANGED <<compararVars, rollupVars>>

GetAnalystAgreement ==
    /\ pc = "load"
    /\ pc' = "done"
    /\ result' = [op |-> "agreement", value |-> AnalystAgreement]
    /\ UNCHANGED <<analysts_dirs, stories, user_analysis, requirements_by_id, errors,
                     messages>>
    /\ UNCHANGED <<compararVars, rollupVars>>

\* The external ids the model's requirements carry, and one no file holds.
ExternalIds == {"R1", "R2"}
LookupIds == ExternalIds \cup {"R9"}

GetRequirementDescription ==
    \E req_id_externo \in LookupIds :
        /\ pc = "load"
        /\ pc' = "done"
        /\ result' = [op |-> "description", req |-> req_id_externo,
                      value |-> RequirementDescription(req_id_externo)]
        /\ UNCHANGED <<analysts_dirs, stories, user_analysis, requirements_by_id, errors,
                     messages>>
        /\ UNCHANGED <<compararVars, rollupVars>>

Init == InitAnalyzer /\ InitComparar /\ InitRollup

Next ==
    \/ LoadStories
    \/ GetRequirementFrequency
    \/ GetStoryRequirementMatrix
    \/ GetAnalystAgreement
    \/ GetRequirementDescription

Spec == Init /\ [][Next]_vars

(***************************************************************************)
(* load_stories on a directory holding one file, for every file name of    *)
(* at most MaxStem characters before the ".json" that line 40 asks for.    *)
(***************************************************************************)
StemChars == {"g", "5", "a", "_", "."}

AllFileNames ==
    { Name(stem) : stem \in UNION { [1..n -> StemChars] : n \in 0..MaxStem } }

LoadOneFile ==
    \E filename \in AllFileNames, analyst_dir \in DirChoices :
        /\ stories = <<>>
        /\ errors = 0
        /\ ProcessFile(filename, analyst_dir, Doc(TRUE, "10", <<>>))
        /\ UNCHANGED <<analysts_dirs, pc, result>>
        /\ UNCHANGED <<compararVars, rollupVars>>

SpecNames == Init /\ [][LoadOneFile]_vars

(***************************************************************************)
(* comparar_IA_analistas.py.  carregar_marcacoes_ia returns a dict from    *)
(* story number to the sorted list of the question columns the IA row      *)
(* marks; carregar_marcacoes_analistas a dict from story number to the set *)
(* of question codes found in the analysts' rows.  What the two loaders    *)
(* read is an input; comparar is modelled as written.                      *)
(***************************************************************************)
MaxHistoria == 2

Historias == 1..MaxHistoria
QCodes == {"Q1", "Q2", "Q3"}

IaResults ==
    UNION { [K -> { Sorted(S) : S \in SUBSET QCodes }] : K \in SUBSET Historias }

AnalistasResults ==
    UNION { [K -> SUBSET QCodes] : K \in SUBSET Historias }

\* dict.get(h, [])
GetOrEmpty(d, h) == IF h \in DOMAIN d THEN d[h] ELSE <<>>
GetOrEmptySet(d, h) == IF h \in DOMAIN d THEN d[h] ELSE {}

RECURSIVE SortedInts(_)
SortedInts(S) ==
    IF S = {} THEN <<>>
    ELSE LET m == CHOOSE x \in S : \A y \in S : x <= y
         IN <<m>> \o SortedInts(S \ {m})

\* round(x, 2) of x = p * 100 / n, in hundredths; a tie goes to the even
\* neighbour.
Round2(p, n) ==
    LET q == (p * 10000) \div n
        r == (p * 10000) % n
    IN IF 2 * r < n THEN q
       ELSE IF 2 * r > n THEN q + 1
       ELSE IF q % 2 = 0 THEN q ELSE q + 1

\* Line 59 with the union of the two sets as the denominator.
AcuraciaOverUnion(q_ia, q_an) ==
    IF q_ia # {}
    THEN Round2(Cardinality(q_ia \cap q_an), Cardinality(q_ia \cup q_an))
    ELSE 0

\* Line 59 with two empty sets counted as full agreement, as line 252 does.
AcuraciaVacuous(q_ia, q_an) ==
    IF q_ia # {} THEN Round2(Cardinality(q_ia \cap q_an), Cardinality(q_ia))
    ELSE IF q_an = {} THEN 10000 ELSE 0

\* Line 59, in hundredths of a percent.
Acuracia(q_ia, q_an) ==
    IF q_ia # {} THEN Round2(Cardinality(q_ia \cap q_an), Cardinality(q_ia)) ELSE 0

CompararRow(h) ==
    LET q_ia == Range(GetOrEmpty(ia, h))
        q_an == GetOrEmptySet(analistas, h)
    IN [story_number |-> h,
        marcacoes_ia |-> Sorted(q_ia),
        marcacoes_analistas |-> Sorted(q_an),
        intersecao |-> Sorted(q_ia \cap q_an),
        so_ia |-> Sorted(q_ia \ q_an),
        so_analistas |-> Sorted(q_an \ q_ia),
        acuracia |-> Acuracia(q_ia, q_an)]

\* Variant of lines 48-49 that walks the story numbers of the automated
\* results only.
CompararResultIaKeys ==
    LET historias == SortedInts(DOMAIN ia)
    IN [k \in 1..Len(historias) |-> CompararRow(historias[k])]

CompararResult ==
    LET historias == SortedInts(DOMAIN ia \cup DOMAIN analistas)
    IN [k \in 1..Len(historias) |-> CompararRow(historias[k])]

CarregarMarcacoesIa ==
    /\ cpc = "start"
    /\ ia' \in IaResults
    /\ cpc' = "ia"
    /\ UNCHANGED <<analistas, resultados>>
    /\ UNCHANGED <<analyzerVars, rollupVars>>

CarregarMarcacoesAnalistas ==
    /\ cpc = "ia"
    /\ analistas' \in AnalistasResults
    /\ cpc' = "analistas"
    /\ UNCHANGED <<ia, resultados>>
    /\ UNCHANGED <<analyzerVars, rollupVars>>

Comparar ==
    /\ cpc = "analistas"
    /\ resultados' = CompararResult
    /\ cpc' = "done"
    /\ UNCHANGED <<ia, analistas>>
    /\ UNCHANGED <<analyzerVars, rollupVars>>

NextComparar ==
    \/ CarregarMarcacoesIa
    \/ CarregarMarcacoesAnalistas
    \/ Comparar

SpecComparar == Init /\ [][NextComparar]_vars

(***************************************************************************)
(* analise_geral_ia_vs_analistas.py.  The script reads the table that      *)
(* comparar wrote, one row per story with the two lists of question codes  *)
(* printed as Python list literals, and counts the codes per general       *)
(* category.  The category labels are written without their accents.       *)
(***************************************************************************)
mapa_qx_para_geral ==
    [q \in {"Q1", "Q2", "Q3", "Q4"} |-> "Controle de Autenticacao"] @@
    [q \in {"Q5", "Q6"} |-> "Gerenciamento de Sessao"] @@
    ("Q7" :> "Autorizacao e Acesso") @@
    ("Q8" :> "Seguranca de Dados / API") @@
    ("Q9" :> "Funcoes Administrativas") @@
    ("Q10" :> "Entrada de Usuario / Ambiente") @@
    ("Q11" :> "Saida de Dados") @@
    ("Q12" :> "Serializacao / Objetos") @@
    ("Q13" :> "Analise XML") @@
    ("Q14" :> "Desserializacao") @@
    ("Q15" :> "Analise JSON") @@
    ("Q16" :> "Logs e Armazenamento") @@
    ("Q17" :> "Upload de Arquivos") @@
    ("Q18" :> "API RESTful")

MaxLinhas == 2

\* The codes in the two columns of the table read at line 32: two codes of
\* one category, a code of another category, and a code the table lacks.
IaCodes == {"Q1", "Q2", "Q19"}
HumanCodes == {"Q1", "Q5", "Q19"}

\* A cell of the table: the text of a list, kept as the list that eval gives
\* back.  comparar writes a list, "[]" when empty, in every cell, so no cell
\* of the table is empty (notna is true).
Cell(lista) == [notna |-> TRUE, lista |-> lista]

Linhas ==
    [marcacoes_ia : { Cell(Sorted(S)) : S \in SUBSET IaCodes },
     marcacoes_analistas : { Cell(Sorted(S)) : S \in SUBSET HumanCodes }]

Tabelas == UNION { [1..n -> Linhas] : n \in 0..MaxLinhas }

\* Lines 38-39: eval(cell) if pd.notna(cell) else []
EvalCell(cell) == IF cell.notna THEN cell.lista ELSE <<>>

ZeroCounts == [acertos |-> 0, so_ia |-> 0, so_humanos |-> 0]

\* Lines 45-47 (and 49-51, 53-55): resumo[geral][campo] += 1 on a
\* defaultdict, for a code the table has.
Increment(resumo, q, campo) ==
    IF q \notin DOMAIN mapa_qx_para_geral
    THEN resumo
    ELSE LET geral == mapa_qx_para_geral[q]
             held == IF geral \in DOMAIN resumo THEN resumo[geral] ELSE ZeroCounts
         IN [g \in DOMAIN resumo \cup {geral} |->
               IF g = geral THEN [held EXCEPT ![campo] = @ + 1] ELSE resumo[g]]

\* One of the three loops of lines 44-55 over the codes qs.
RECURSIVE IncrementAll(_, _, _)
IncrementAll(resumo, qs, campo) ==
    IF qs = <<>> THEN resumo
    ELSE IncrementAll(Increment(resumo, Head(qs), campo), Tail(qs), campo)

\* Lines 38-55 for one row.
ResumoRow(resumo, row) ==
    LET ia_set == Range(EvalCell(row.marcacoes_ia))
        humanos == Range(EvalCell(row.marcacoes_analistas))
        intersecao == ia_set \cap humanos
        so_ia == ia_set \ humanos
        so_humanos == humanos \ ia_set
    IN IncrementAll(
         IncrementAll(
           IncrementAll(resumo, Sorted(intersecao), "acertos"),
           Sorted(so_ia), "so_ia"),
         Sorted(so_humanos), "so_humanos")

\* Lines 35-55: resumo after the first n rows of the table.
RECURSIVE Resumo(_, _)
Resumo(tabela, n) ==
    IF n = 0 THEN <<>> ELSE ResumoRow(Resumo(tabela, n - 1), tabela[n])

\* Line 61 with the automated marks alone as the denominator.
AcuraciaGeralOverIa(valores) ==
    LET total == valores.acertos + valores.so_ia
    IN IF total # 0 THEN Round2(valores.acertos, total) ELSE 0

\* Lines 60-61, in hundredths of a percent.
AcuraciaGeral(valores) ==
    LET total == valores.acertos + valores.so_ia + valores.so_humanos
    IN IF total # 0 THEN Round2(valores.acertos, total) ELSE 0

\* Lines 62-68.
DadosRow(geral, valores) ==
    [questao_geral |-> geral,
     acertos |-> valores.acertos,
     so_ia |-> valores.so_ia,
     so_humanos |-> valores.so_humanos,
     acuracia_percentual |-> AcuraciaGeral(valores)]

\* Line 70: the rows of dados by decreasing accuracy.  The order of rows of
\* equal accuracy is not fixed by the code (set iteration order, then an
\* unstable sort): every such order is a possible result.
Orderings(resumo) ==
    LET gs == DOMAIN resumo
        n == Cardinality(gs)
    IN { [k \in 1..n |-> DadosRow(o[k], resumo[o[k]])] :
           o \in { o \in [1..n -> gs] :
                     /\ \A i, j \in 1..n : i # j => o[i] # o[j]
                     /\ \A i, j \in 1..n :
                          i < j => AcuraciaGeral(resumo[o[i]]) >=
                                   AcuraciaGeral(resumo[o[j]]) } }

LerComparacao ==
    /\ rpc = "start"
    /\ df' \in Tabelas
    /\ rpc' = "lido"
    /\ UNCHANGED df_resultado
    /\ UNCHANGED <<analyzerVars, compararVars>>

AnaliseGeral ==
    /\ rpc = "lido"
    /\ df_resultado' \in Orderings(Resumo(df, Len(df)))
    /\ rpc' = "done"
    /\ UNCHANGED df
    /\ UNCHANGED <<analyzerVars, compararVars>>

NextRollup ==
    \/ LerComparacao
    \/ AnaliseGeral

\* The script runs on its own: no analyzer directory is involved.
InitAnaliseGeral == Init /\ analysts_dirs = {}

SpecRollup == InitAnaliseGeral /\ [][NextRollup]_vars

(***************************************************************************)
(* What the claims speak of, stated on the loaded submissions themselves.  *)
(***************************************************************************)
\* The deduplicated set of external ids a submission marks.
MarkedIdsOf(story) ==
    { story.questions[q][e][k].id_externo :
        <<q, e, k>> \in
          { t \in (1..Len(story.questions)) \X (1..2) \X (1..3) :
              /\ t[2] <= Len(story.questions[t[1]])
              /\ t[3] <= Len(story.questions[t[1]][t[2]])
              /\ story.questions[t[1]][t[2]][t[3]].marked } }

SubmissionsOf(number) ==
    { i \in 1..Len(stories) : stories[i]._metadata.story_number = number }

AnalystsOf(number) ==
    { stories[i]._metadata.analyst_id : i \in SubmissionsOf(number) }

LoadedNumbers == { stories[i]._metadata.story_number : i \in 1..Len(stories) }

\* All that one analyst marked for a story number.
AnalystMarked(number, analyst) ==
    UNION { MarkedIdsOf(stories[i]) :
              i \in { j \in SubmissionsOf(number) :
                        stories[j]._metadata.analyst_id = analyst } }

UnionOf(number) ==
    UNION { AnalystMarked(number, a) : a \in AnalystsOf(number) }

IntersectionOf(number) ==
    { r \in UnionOf(number) :
        \A a \in AnalystsOf(number) : r \in AnalystMarked(number, a) }

FrequencyReturned == pc = "done" /\ result.op = "frequency"
AgreementReturned == pc = "done" /\ result.op = "agreement"
MatrixReturned == pc = "done" /\ result.op = "matrix"

AgreementRows ==
    { result.value.rows[k] : k \in 1..Len(result.value.rows) }

CountOf(freq, r) == IF r \in DOMAIN freq THEN freq[r] ELSE 0

(***************************************************************************)
(* C1: get_requirement_frequency()[r] is the number of submissions whose   *)
(* deduplicated set of marked external ids contains r; a requirement       *)
(* marked twice inside one submission counts once.                         *)
(***************************************************************************)
C1_FrequencyCountsSubmissions ==
    FrequencyReturned =>
        \A r \in ExternalIds :
            CountOf(result.value, r) =
                Cardinality({ i \in 1..Len(stories) : r \in MarkedIdsOf(stories[i]) })

(***************************************************************************)
(* C2: for a story number with at least two analysts the emitted record    *)
(* carries the sizes of the union and of the intersection of the           *)
(* per-analyst sets of marked ids, and their quotient as the ratio when    *)
(* the union is not empty.                                                 *)
(***************************************************************************)
C2_AgreementIsUnionAndIntersection ==
    AgreementReturned =>
        \A row \in AgreementRows :
            Cardinality(AnalystsOf(row.story_number)) >= 2 =>
                /\ row.total_unique_requirements =
                       Cardinality(UnionOf(row.story_number))
                /\ row.common_requirements =
                       Cardinality(IntersectionOf(row.story_number))
                /\ UnionOf(row.story_number) # {} =>
                       row.agreement_ratio.num * Cardinality(UnionOf(row.story_number))
                         = Cardinality(IntersectionOf(row.story_number))
                             * row.agreement_ratio.den

(***************************************************************************)
(* C3: with at least two analysts and at least one marked requirement the  *)
(* ratio lies in [0, 1], and it is 1.0 exactly when every analyst marked   *)
(* the same set.                                                           *)
(***************************************************************************)
C3_RatioRangeAndUnanimity ==
    AgreementReturned =>
        \A row \in AgreementRows :
            (/\ Cardinality(AnalystsOf(row.story_number)) >= 2
             /\ UnionOf(row.story_number) # {}) =>
                /\ row.agreement_ratio.den > 0
                /\ 0 <= row.agreement_ratio.num
                /\ row.agreement_ratio.num <= row.agreement_ratio.den
                /\ (row.agreement_ratio.num = row.agreement_ratio.den) <=>
                       (\A a, b \in AnalystsOf(row.story_number) :
                           AnalystMarked(row.story_number, a)
                             = AnalystMarked(row.story_number, b))

(***************************************************************************)
(* C4: a story number with at least two analysts none of whom marked       *)
(* anything gets a record, and its ratio is exactly 1.0; the call does not *)
(* fail.                                                                   *)
(***************************************************************************)
C4_VacuousAgreementIsOne ==
    AgreementReturned =>
        \A number \in LoadedNumbers :
            (/\ Cardinality(AnalystsOf(number)) >= 2
             /\ UnionOf(number) = {}) =>
                /\ ~result.value.raised
                /\ \E row \in AgreementRows :
                      /\ row.story_number = number
                      /\ row.agreement_ratio = [num |-> 1, den |-> 1]

(***************************************************************************)
(* C5: a story number whose submissions all come from one analyst, be it   *)
(* one submission or several, gets no agreement record.                    *)
(***************************************************************************)
C5_SingleAnalystNoRecord ==
    AgreementReturned =>
        \A number \in LoadedNumbers :
            Cardinality(AnalystsOf(number)) = 1 =>
                \A row \in AgreementRows : row.story_number # number

\* The agreement is returned for a load in which one analyst has two
\* submissions for a story number and no other analyst has any.
C5_Witness ==
    /\ AgreementReturned
    /\ ~result.value.raised
    /\ \E number \in LoadedNumbers :
          /\ Cardinality(AnalystsOf(number)) = 1
          /\ Cardinality(SubmissionsOf(number)) >= 2

(***************************************************************************)
(* The comparison, stated on what the two loaders returned.                *)
(***************************************************************************)
CompararReturned == cpc = "done"

CompararRows == { resultados[k] : k \in 1..Len(resultados) }

\* The automated set and the pooled human set of story number h.
IA(h) == IF h \in DOMAIN ia THEN { ia[h][k] : k \in 1..Len(ia[h]) } ELSE {}
H(h) == IF h \in DOMAIN analistas THEN analistas[h] ELSE {}

Abs(x) == IF x < 0 THEN -x ELSE x

\* a (in hundredths) is p / n * 100 rounded to two decimals: no further
\* from it than half a hundredth.
IsRounded(a, p, n) == 2 * Abs(a * n - p * 10000) <= n

(***************************************************************************)
(* C6: with a non-empty automated set, acuracia is                         *)
(* |IA(h) \cap H(h)| / |IA(h)| * 100 rounded to two decimals; the          *)
(* denominator is the automated set alone.                                 *)
(***************************************************************************)
C6_AccuracyOverAutomatedSet ==
    CompararReturned =>
        \A row \in CompararRows :
            IA(row.story_number) # {} =>
                IsRounded(row.acuracia,
                          Cardinality(IA(row.story_number) \cap H(row.story_number)),
                          Cardinality(IA(row.story_number)))

\* The scenario of the claim: IA = {Q1, Q2}, H = {Q2, Q3}, accuracy 50.0.
C6_Witness ==
    /\ CompararReturned
    /\ \E row \in CompararRows :
          /\ IA(row.story_number) = {"Q1", "Q2"}
          /\ H(row.story_number) = {"Q2", "Q3"}
          /\ row.intersecao = <<"Q2">>
          /\ row.so_ia = <<"Q1">>
          /\ row.so_analistas = <<"Q3">>
          /\ row.acuracia = 5000

(***************************************************************************)
(* C7 as stated: acuracia is 0.0 exactly when the automated set of the     *)
(* story is empty.                                                         *)
(***************************************************************************)
C7_ZeroExactlyWhenAutomatedEmpty ==
    CompararReturned =>
        \A row \in CompararRows :
            (row.acuracia = 0) <=> (IA(row.story_number) = {})

(***************************************************************************)
(* C7 as amended: acuracia is 0.0 whenever the automated set is empty,     *)
(* whatever the human set is, and also whenever a non-empty automated set  *)
(* shares no code with the human set.                                      *)
(***************************************************************************)
C7_ZeroWhenAutomatedEmptyOrDisjoint ==
    CompararReturned =>
        \A row \in CompararRows :
            /\ IA(row.story_number) = {} => row.acuracia = 0
            /\ IA(row.story_number) \cap H(row.story_number) = {} => row.acuracia = 0

\* Empty automated set against an empty and against a non-empty human set.
C7_Witness ==
    /\ CompararReturned
    /\ \E row \in CompararRows :
          /\ IA(row.story_number) = {} /\ H(row.story_number) = {}
          /\ row.acuracia = 0
    /\ \E row \in CompararRows :
          /\ IA(row.story_number) = {} /\ H(row.story_number) # {}
          /\ row.acuracia = 0

(***************************************************************************)
(* The sightings of a requirement: every requirement of every loaded       *)
(* submission, in loading order.                                           *)
(***************************************************************************)
Sightings == Concat([i \in 1..Len(stories) |-> AllRequirements(stories[i])])

Seen(r) == \E k \in 1..Len(Sightings) : Sightings[k].id_externo = r

FirstSighting(r) ==
    Sightings[CHOOSE k \in 1..Len(Sightings) :
                 /\ Sightings[k].id_externo = r
                 /\ \A m \in 1..(k - 1) : Sightings[m].id_externo # r]

\* The catalog entries that carry external id r; the one the catalog holds
\* for r is the first of them, the one a lookup by external id reads.
HeldFor(r) ==
    { i \in 1..Len(requirements_by_id) : requirements_by_id[i].id_externo = r }

(***************************************************************************)
(* C8: the metadata the catalog holds for an external id, and the text the *)
(* description lookup returns for it, are those of its first sighting; the *)
(* lookup returns the "not found" sentinel only for an id never seen.      *)
(* Stated for the runs in which no file was reported in error.             *)
(***************************************************************************)
C8_FirstSightingWins ==
    errors = 0 =>
        \A r \in LookupIds :
            /\ Seen(r) =>
                 /\ HeldFor(r) # {}
                 /\ \A i \in HeldFor(r) :
                       (\A j \in HeldFor(r) : i <= j) =>
                          /\ requirements_by_id[i].descricao
                               = FirstSighting(r).descricao
                          /\ requirements_by_id[i].nivel
                               = (IF FirstSighting(r).nivel = NoKey THEN NA
                                  ELSE FirstSighting(r).nivel)
                          /\ requirements_by_id[i].secao_id
                               = (IF FirstSighting(r).fk_Secao_id = NoKey THEN "None"
                                  ELSE FirstSighting(r).fk_Secao_id)
            /\ (pc = "done" /\ result.op = "description" /\ result.req = r) =>
                 result.value = IF Seen(r) THEN FirstSighting(r).descricao
                                ELSE NaoEncontrado

(***************************************************************************)
(* C9: a file whose name does not match the pattern and holds no           *)
(* underscore, loaded without an analyst folder, gives a record whose      *)
(* analyst id and story number are both "unknown".                         *)
(***************************************************************************)
C9_UnknownIdentity ==
    \A i \in 1..Len(stories) :
        (/\ analysts_dirs = {}
         /\ PatternMatches(stories[i]._metadata.filename) = {}
         /\ \A k \in 1..Len(stories[i]._metadata.filename) :
               stories[i]._metadata.filename[k] # "_") =>
            /\ stories[i]._metadata.analyst_id = unknown
            /\ stories[i]._metadata.story_number = unknown

(***************************************************************************)
(* C10: a loaded submission without userStory or without its id makes      *)
(* neither get_story_requirement_matrix nor get_analyst_agreement raise,   *)
(* and the matrix still holds the row of every well-formed submission.     *)
(***************************************************************************)
C10_MissingIdentityDoesNotRaise ==
    (MatrixReturned \/ AgreementReturned) =>
        /\ ~result.value.raised
        /\ MatrixReturned =>
             \A i \in 1..Len(stories) :
                (stories[i].hasUserStory /\ stories[i].userStory.id # NoKey) =>
                    \E k \in 1..Len(result.value.rows) :
                        /\ result.value.rows[k].story_id = stories[i].userStory.id
                        /\ result.value.rows[k].analyst_id
                             = stories[i]._metadata.analyst_id
                        /\ result.value.rows[k].story_number
                             = stories[i]._metadata.story_number

(***************************************************************************)
(* C11.  Ingesting a file that is not valid JSON leaves the story list,   *)
(* the (analyst, story) index and the requirement catalog unchanged, lets  *)
(* the load go on (nothing is raised to the caller), and every file        *)
(* processed afterwards is ingested as if the invalid file were absent:    *)
(* throughout the load the three collections are what ingesting the        *)
(* recorded files alone, in order, gives.                                  *)
(***************************************************************************)
InvalidJsonStep ==
    /\ Len(messages') = Len(messages) + 1
    /\ messages'[Len(messages')] = JsonInvalido

\* The collections that ingesting only the files behind the first n records,
\* in order and from an empty analyzer, gives.
RECURSIVE Replayed(_)
Replayed(n) ==
    IF n = 0
    THEN [stories |-> <<>>, user_analysis |-> <<>>, requirements_by_id |-> <<>>]
    ELSE LET story == stories[n]
             after == IngestFrom(Replayed(n - 1), story._metadata.filename,
                                 CHOOSE d \in DirChoices : TRUE,
                                 Doc(story.hasUserStory, story.userStory.id,
                                     story.questions))
         IN [stories |-> after.stories, user_analysis |-> after.user_analysis,
             requirements_by_id |-> after.requirements_by_id]

C11_InvalidJsonIsSkipped ==
    /\ [][InvalidJsonStep =>
             /\ UNCHANGED <<stories, user_analysis, requirements_by_id>>
             /\ pc' = "load"
             /\ result' = result]_vars
    /\ [](pc = "load" => Loaded = Replayed(Len(stories)))

\* An invalid file was reported first, and a file processed after it was
\* ingested (its record is in the list, its own error reported second).
C11_Witness ==
    /\ Len(messages) = 2
    /\ messages[1] = JsonInvalido
    /\ messages[2] = "KeyError"
    /\ Len(stories) = 1

(***************************************************************************)
(* C12.  For each general category the rollup reports acertos, so_ia and   *)
(* so_humanos equal to the number of (story, question code) pairs whose    *)
(* code the table maps to that category and that lie in the story's        *)
(* intersection, automated-only and human-only set respectively (a code    *)
(* the table lacks counts nowhere), with an accuracy of                    *)
(* acertos / (acertos + so_ia + so_humanos) * 100 rounded to two decimals, *)
(* 0 for a zero total; a category without a row has no such pair.          *)
(***************************************************************************)
RollupReturned == rpc = "done"

Categories == { mapa_qx_para_geral[q] : q \in DOMAIN mapa_qx_para_geral }

IaOfRow(k) == Range(EvalCell(df[k].marcacoes_ia))
HumanosOfRow(k) == Range(EvalCell(df[k].marcacoes_analistas))

\* The codes of the tables that the static table maps to category g.
CodesOf(g) ==
    { q \in (IaCodes \cup HumanCodes) \cap DOMAIN mapa_qx_para_geral :
        mapa_qx_para_geral[q] = g }

\* The (story, code) pairs of category g whose code is in Where(story).
PairsOf(g, Where(_)) ==
    { p \in (1..Len(df)) \X CodesOf(g) : p[2] \in Where(p[1]) }

InBoth(k) == IaOfRow(k) \cap HumanosOfRow(k)
OnlyIa(k) == IaOfRow(k) \ HumanosOfRow(k)
OnlyHumanos(k) == HumanosOfRow(k) \ IaOfRow(k)

RowsOfCategory(g) ==
    { k \in 1..Len(df_resultado) : df_resultado[k].questao_geral = g }

CatalogExternalIds ==
    { requirements_by_id[i].id_externo : i \in 1..Len(requirements_by_id) }

C13_MatrixRowPerSubmission ==
    MatrixReturned =>
        LET columns == result.value.columns
            rows == result.value.rows
        IN /\ ~result.value.raised
           /\ Len(rows) = Len(stories)
           /\ Range(columns) = CatalogExternalIds
           /\ \A a, b \in 1..Len(columns) :
                  a < b => StrRank(columns[a]) < StrRank(columns[b])
           /\ \A i \in 1..Len(stories) :
                  /\ rows[i].analyst_id = stories[i]._metadata.analyst_id
                  /\ rows[i].story_number = stories[i]._metadata.story_number
                  /\ \A r \in CatalogExternalIds :
                         rows[i].req[r] = 1 <=> r \in MarkedIdsOf(stories[i])

(***************************************************************************)
(* C14.  When files are loaded from analyst folders, the analyst id of     *)
(* every record is the name of its folder, whatever the file name parses   *)
(* to (pattern match, underscore fallback or neither), and the story       *)
(* number is the one the file name gives.                                  *)
(***************************************************************************)
C14_FolderOverridesAnalystId ==
    analysts_dirs # {} =>
        \A i \in 1..Len(stories) :
            /\ stories[i]._metadata.analyst_id \in analysts_dirs
            /\ stories[i]._metadata.story_number =
                   FilenameStoryNumber(stories[i]._metadata.filename)

\* A file named for analyst a, loaded from folder c: analyst c, story 5.
C14_Witness ==
    /\ analysts_dirs = { <<"c">> }
    /\ Len(stories) = 1
    /\ stories[1]._metadata.filename = Name(<<"g", "5", "a", "_", "5">>)
    /\ FilenameAnalystId(stories[1]._metadata.filename) = <<"a">>
    /\ stories[1]._metadata.analyst_id = <<"c">>
    /\ stories[1]._metadata.story_number = <<"5">>

(***************************************************************************)
(* C15.  Ingestion of one file is all-or-nothing: a file for which         *)
(* _process_file reports an error (invalid JSON or any other exception)    *)
(* adds no record to the story list and no entry to the catalog, and every *)
(* requirement with an external id of every record of the story list is    *)
(* registered in the catalog.                                              *)
(***************************************************************************)
ErrorReportedStep == Len(messages') = Len(messages) + 1

AllRegistered(story) ==
    \A k \in 1..Len(AllRequirements(story)) :
        AllRequirements(story)[k].id_externo # NoKey =>
            AllRequirements(story)[k].id \in DictKeys(requirements_by_id)

C15_IngestionIsAllOrNothing ==
    /\ [][ErrorReportedStep =>
             UNCHANGED <<stories, user_analysis, requirements_by_id>>]_vars
    /\ [](\A i \in 1..Len(stories) : AllRegistered(stories[i]))

(***************************************************************************)
(* C16.  For every story number that gets an agreement record,             *)
(* total_unique_requirements is the size of the union of the marked        *)
(* external ids of every loaded submission of that story number, also when *)
(* one analyst has more than one submission for it.                        *)
(***************************************************************************)
MarkedByAnySubmission(number) ==
    UNION { MarkedIdsOf(stories[i]) : i \in SubmissionsOf(number) }

C16_UnionCoversEverySubmission ==
    AgreementReturned =>
        \A k \in 1..Len(result.value.rows) :
            result.value.rows[k].total_unique_requirements =
                Cardinality(MarkedByAnySubmission(result.value.rows[k].story_number))

(***************************************************************************)
(* C17.  comparar emits exactly one row for each story number of           *)
(* keys(ia) \cup keys(analistas), in ascending order of story number; in   *)
(* every row intersecao, so_ia and so_analistas are pairwise disjoint,     *)
(* intersecao \cup so_ia is marcacoes_ia and intersecao \cup so_analistas  *)
(* is marcacoes_analistas; a story of one source only has the other        *)
(* source's set empty.                                                     *)
(***************************************************************************)
C17_OneRowPerStoryPartitioned ==
    CompararReturned =>
        /\ { resultados[k].story_number : k \in 1..Len(resultados) } =
               DOMAIN ia \cup DOMAIN analistas
        /\ \A a, b \in 1..Len(resultados) :
               a < b => resultados[a].story_number < resultados[b].story_number
        /\ \A k \in 1..Len(resultados) :
             LET row == resultados[k]
                 both == Range(row.intersecao)
                 only_ia == Range(row.so_ia)
                 only_an == Range(row.so_analistas)
             IN /\ both \cap only_ia = {}
                /\ both \cap only_an = {}
                /\ only_ia \cap only_an = {}
                /\ both \cup only_ia = Range(row.marcacoes_ia)
                /\ both \cup only_an = Range(row.marcacoes_analistas)
                /\ Range(row.marcacoes_ia) = IA(row.story_number)
                /\ Range(row.marcacoes_analistas) = H(row.story_number)
                /\ row.story_number \notin DOMAIN ia =>
                       row.marcacoes_ia = <<>>
                /\ row.story_number \notin DOMAIN analistas =>
                       row.marcacoes_analistas = <<>>

\* Story 1 is in the automated results only, story 2 in the human results
\* only: two rows, 1 before 2, each with the other source's set empty.
C17_Witness ==
    /\ CompararReturned
    /\ DOMAIN ia = {1}
    /\ DOMAIN analistas = {2}
    /\ Len(resultados) = 2
    /\ resultados[1].story_number = 1
    /\ resultados[1].so_ia = <<"Q1", "Q2">>
    /\ resultados[1].marcacoes_analistas = <<>>
    /\ resultados[2].story_number = 2
    /\ resultados[2].marcacoes_ia = <<>>
    /\ resultados[2].so_analistas = <<"Q3">>

====
